---- MODULE Spec2Model ----
(***************************************************************************)
(* Detector lifecycle and render loop of the live_video pose-detection     *)
(* demo (pose-detection/demos/live_video/src/index.js).                    *)
(*                                                                         *)
(* JavaScript runs to completion between suspension points.  Every await   *)
(* of an external promise (Camera.setupCamera, setBackendAndEnvFlags,      *)
(* createDetector, video.onloadeddata, detector.estimatePoses) and the     *)
(* wait for the next animation frame is a suspension point; host events    *)
(* (control panel callbacks, frame callbacks, promise settlements) are     *)
(* delivered only when every coroutine is parked at one (Quiescent).       *)
(***************************************************************************)
EXTENDS Integers, Sequences, FiniteSets, TLC

\* ---------------------------------------------------------------- bounds
NSlots == 2
NHandles == 2
MaxPending == 2
MaxNow == 2500

Slots == 1..NSlots
Handles == 1..NHandles

\* ------------------------------------------------------- configuration
Models == {"PoseNet", "MoveNet"}
Backends == {"tfjs-webgl", "mediapipe-gpu"}
NoCfg == [model |-> "none", backend |-> "none"]

VARIABLES
  \* STATE (params.js), written by the control panel and by checkGuiUpdate
  isModelChanged, isFlagChanged, isBackendChanged,
  isTargetFPSChanged, isSizeOptionChanged,
  model, backend,
  \* module variables of index.js
  detector,          \* 0 = null, otherwise a reference into heap
  videoReady,        \* camera.video.readyState >= 2
  rafPending,        \* number of frame callbacks requested and not yet run
  rafIdPending,      \* the callback named by rafId is among them
  \* objects and coroutines
  heap,              \* detector handles
  appPc, appPend,    \* position of app() and arguments of its pending call
  tick,              \* executions of renderPrediction
  \* history
  useAfterDispose, doubleDispose, loadFailed, retryArmed, inferFailed,
  loopAborted,
  \* statistics (index.js lines 35-39, 118-138)
  stats, startInferenceTime, numInferences, inferenceTimeSum,
  lastPanelUpdate, now, statsPc, reported, samples, reportedSamples,
  reports,
  \* STATE.modelConfig and the calls createDetector makes to the factory
  modelType, customModel, factoryCalls, factoryPc

flagVars == <<isModelChanged, isFlagChanged, isBackendChanged,
              isTargetFPSChanged, isSizeOptionChanged>>
cfgVars == <<model, backend>>
rafVars == <<rafPending, rafIdPending>>
appVars == <<appPc, appPend>>
histVars == <<useAfterDispose, doubleDispose, loadFailed, retryArmed,
              inferFailed, loopAborted>>
statsVars == <<stats, startInferenceTime, numInferences, inferenceTimeSum,
               lastPanelUpdate, now, statsPc, reported, samples,
               reportedSamples, reports>>
factoryVars == <<modelType, customModel, factoryCalls, factoryPc>>
loopVars == <<flagVars, cfgVars, detector, videoReady, rafVars, heap,
              appVars, tick, histVars>>
vars == <<loopVars, statsVars, factoryVars>>

\* ------------------------------------------------------------- handles
FreeCell == [st |-> "free", cfg |-> NoCfg, flagged |-> FALSE]
NullPoses == [some |-> "null", cfg |-> NoCfg, flagged |-> FALSE]
FreeTick == [pc |-> "free", pend |-> NoCfg, poses |-> NullPoses,
             inferH |-> 0, calls |-> <<>>, threw |-> FALSE,
             capture |-> FALSE]

\* The configuration createDetector reads when it is called.
createDetector == [model |-> model, backend |-> backend]

\* A handle nobody refers to any more and that was disposed is reclaimed.
Collect(h, d, tk) ==
  [i \in Handles |->
     IF h[i].st = "disposed" /\ d # i /\ \A t \in Slots : tk[t].inferH # i
     THEN FreeCell ELSE h[i]]

FreeIds == {i \in Handles : heap[i].st = "free"}
NewId == CHOOSE i \in FreeIds : \A j \in FreeIds : i <= j

\* detector.dispose() of the handle d refers to.
Dispose_Skip(h, d) == h
Dispose(h, d) == [h EXCEPT ![d].st = "disposed"]

\* STATE.isModelChanged = true on entry to the model branch.
GateOnReconcile_Unset == isModelChanged
GateOnReconcile == TRUE

\* detector = null in the catch of createDetector.
DetectorAfterLoadFailure_Keep(d) == d
DetectorAfterLoadFailure(d) == 0

\* the three change flags are cleared after the try/catch.
FlagAfterReconcile_KeepOnFailure(f, failed) == IF failed THEN f ELSE FALSE
FlagAfterReconcile(f, failed) == FALSE

\* detector = null in the catch of estimatePoses.
DetectorAfterInferenceFailure_Keep(d) == d
DetectorAfterInferenceFailure(d) == 0

\* poses && poses.length > 0 && !STATE.isModelChanged
OverlayAllowed_NoGate(p, gate) == p.some = "poses"
OverlayAllowed(p, gate) == p.some = "poses" /\ ~gate

\* requestAnimationFrame adds one pending callback.
requestAnimationFrame_Twice(n) == n + 2
requestAnimationFrame(n) == n + 1

\* ----------------------------------------------------------- scheduling
AppAwait == {"setupDatGui", "setupCamera", "setBackend", "createDetector",
             "done", "returned", "failed"}
TickAwait == {"free", "setupCamera", "setBackend", "createDetector",
              "waitVideo", "estimate"}
Quiescent == /\ appPc \in AppAwait
             /\ \A t \in Slots : tick[t].pc \in TickAwait

ActiveTicks == {t \in Slots : tick[t].pc # "free"}
FreeSlots == {t \in Slots : tick[t].pc = "free"}
FirstFree(t) == t \in FreeSlots /\ \A u \in FreeSlots : t <= u

SetPc(t, p) == [tick EXCEPT ![t].pc = p]

Init ==
  /\ isModelChanged = FALSE /\ isFlagChanged = FALSE
  /\ isBackendChanged = FALSE
  /\ isTargetFPSChanged = FALSE /\ isSizeOptionChanged = FALSE
  /\ model \in Models /\ backend \in Backends
  /\ detector = 0 /\ videoReady = FALSE
  /\ rafPending = 0 /\ rafIdPending = FALSE
  /\ heap = [i \in Handles |-> FreeCell]
  /\ appPc = "start" /\ appPend = NoCfg
  /\ tick = [t \in Slots |-> FreeTick]
  /\ useAfterDispose = FALSE /\ doubleDispose = FALSE
  /\ loadFailed = FALSE /\ retryArmed = FALSE /\ inferFailed = FALSE
  /\ loopAborted = "no"
  /\ stats = "undefined"
  /\ startInferenceTime = -1 /\ numInferences = 0
  /\ inferenceTimeSum = 0 /\ lastPanelUpdate = 0
  /\ now = 0 /\ statsPc = "idle"
  /\ reported = [n |-> 0, d |-> 0, set |-> FALSE]
  /\ samples = <<>> /\ reportedSamples = <<>> /\ reports = 0
  /\ modelType = "lightning" /\ customModel = ""
  /\ factoryCalls = <<>> /\ factoryPc = "idle"

\* ------------------------------------------------------------------ app
app_Start ==
  /\ appPc = "start"
  /\ \E hasModel \in BOOLEAN :
       appPc' = IF hasModel THEN "setupDatGui" ELSE "returned"
  /\ UNCHANGED <<flagVars, cfgVars, detector, videoReady, rafVars, heap,
                 appPend, tick, histVars, statsVars, factoryVars>>

app_DatGuiReady ==
  /\ appPc = "setupDatGui"
  /\ appPc' = "setupCamera"
  /\ UNCHANGED <<flagVars, cfgVars, detector, videoReady, rafVars, heap,
                 appPend, tick, histVars, statsVars, factoryVars>>

app_CameraResolve ==
  /\ appPc = "setupCamera"
  /\ videoReady' \in BOOLEAN
  /\ appPc' = "setBackend"
  /\ UNCHANGED <<flagVars, cfgVars, detector, rafVars, heap,
                 appPend, tick, histVars, statsVars, factoryVars>>

\* Camera.setupCamera rejects: the rejection leaves app().
app_CameraReject_Continue ==
  /\ appPc = "setupCamera"
  /\ appPc' = "setBackend"
  /\ loopAborted' = "device"
  /\ UNCHANGED <<flagVars, cfgVars, detector, videoReady, rafVars, heap,
                 appPend, tick, useAfterDispose, doubleDispose, loadFailed,
                 retryArmed, inferFailed, statsVars, factoryVars>>

app_CameraReject ==
  /\ appPc = "setupCamera"
  /\ appPc' = "failed"
  /\ loopAborted' = "device"
  /\ UNCHANGED <<flagVars, cfgVars, detector, videoReady, rafVars, heap,
                 appPend, tick, useAfterDispose, doubleDispose, loadFailed,
                 retryArmed, inferFailed, statsVars, factoryVars>>

app_BackendResolve ==
  /\ appPc = "setBackend"
  /\ appPc' = "createDetector"
  /\ appPend' = createDetector
  /\ UNCHANGED <<flagVars, cfgVars, detector, videoReady, rafVars, heap,
                 tick, histVars, statsVars, factoryVars>>

app_BackendReject ==
  /\ appPc = "setBackend"
  /\ appPc' = "failed"
  /\ UNCHANGED <<flagVars, cfgVars, detector, videoReady, rafVars, heap,
                 appPend, tick, histVars, statsVars, factoryVars>>

\* detector = await createDetector(); renderPrediction();
app_CreateResolve ==
  /\ appPc = "createDetector"
  /\ FreeIds # {}
  /\ \E t \in Slots :
       /\ FirstFree(t)
       /\ tick' = [tick EXCEPT ![t] = [FreeTick EXCEPT !.pc = "checkCamera"]]
  /\ detector' = NewId
  /\ heap' = [heap EXCEPT ![NewId] =
                [st |-> "live", cfg |-> appPend, flagged |-> FALSE]]
  /\ appPc' = "done"
  /\ appPend' = NoCfg
  /\ UNCHANGED <<flagVars, cfgVars, videoReady, rafVars, histVars,
                 statsVars, factoryVars>>

app_CreateReject ==
  /\ appPc = "createDetector"
  /\ appPc' = "failed"
  /\ appPend' = NoCfg
  /\ UNCHANGED <<flagVars, cfgVars, detector, videoReady, rafVars, heap,
                 tick, histVars, statsVars, factoryVars>>

app == \/ app_Start \/ app_DatGuiReady
       \/ app_CameraResolve \/ app_CameraReject
       \/ app_BackendResolve \/ app_BackendReject
       \/ app_CreateResolve \/ app_CreateReject

\* -------------------------------------------------------- control panel
\* The panel exists once setupDatGui has resolved.
PanelUp == appPc \in {"setupCamera", "setBackend", "createDetector",
                      "done", "failed"}

\* A model-side change written while a handle is inferring marks that handle.
FlagInFlight(h) ==
  [i \in Handles |->
     IF \E t \in Slots : tick[t].pc = "estimate" /\ tick[t].inferH = i
     THEN [h[i] EXCEPT !.flagged = TRUE] ELSE h[i]]

Panel_Model(m) ==
  /\ Quiescent /\ PanelUp
  /\ model' = m
  /\ isModelChanged' = TRUE
  /\ heap' = FlagInFlight(heap)
  /\ retryArmed' = (retryArmed \/ loadFailed)
  /\ UNCHANGED <<isFlagChanged, isBackendChanged, isTargetFPSChanged,
                 isSizeOptionChanged, backend, detector, videoReady,
                 rafVars, appVars, tick, useAfterDispose, doubleDispose,
                 loadFailed, inferFailed, loopAborted, statsVars, factoryVars>>

Panel_Backend(b) ==
  /\ Quiescent /\ PanelUp
  /\ backend' = b
  /\ isBackendChanged' = TRUE
  /\ retryArmed' = (retryArmed \/ loadFailed)
  /\ UNCHANGED <<isModelChanged, isFlagChanged, isTargetFPSChanged,
                 isSizeOptionChanged, model, detector, videoReady,
                 rafVars, heap, appVars, tick, useAfterDispose,
                 doubleDispose, loadFailed, inferFailed, loopAborted,
                 statsVars, factoryVars>>

Panel_Flag ==
  /\ Quiescent /\ PanelUp
  /\ isFlagChanged' = TRUE
  /\ retryArmed' = (retryArmed \/ loadFailed)
  /\ UNCHANGED <<isModelChanged, isBackendChanged, isTargetFPSChanged,
                 isSizeOptionChanged, cfgVars, detector, videoReady,
                 rafVars, heap, appVars, tick, useAfterDispose,
                 doubleDispose, loadFailed, inferFailed, loopAborted,
                 statsVars, factoryVars>>

Panel_TargetFPS ==
  /\ Quiescent /\ PanelUp
  /\ isTargetFPSChanged' = TRUE
  /\ UNCHANGED <<isModelChanged, isFlagChanged, isBackendChanged,
                 isSizeOptionChanged, cfgVars, detector, videoReady,
                 rafVars, heap, appVars, tick, histVars, statsVars, factoryVars>>

Panel_Size ==
  /\ Quiescent /\ PanelUp
  /\ isSizeOptionChanged' = TRUE
  /\ UNCHANGED <<isModelChanged, isFlagChanged, isBackendChanged,
                 isTargetFPSChanged, cfgVars, detector, videoReady,
                 rafVars, heap, appVars, tick, histVars, statsVars, factoryVars>>

Panel == \/ \E m \in Models : Panel_Model(m)
         \/ \E b \in Backends : Panel_Backend(b)
         \/ Panel_Flag \/ Panel_TargetFPS \/ Panel_Size

\* ------------------------------------------------------ frame callbacks
\* The host runs a requested callback (oldest first): renderPrediction.
FrameCallback(t) ==
  /\ Quiescent
  /\ rafPending > 0
  /\ FirstFree(t)
  /\ rafPending' = rafPending - 1
  /\ rafIdPending' = (rafIdPending /\ rafPending > 1)
  /\ tick' = [tick EXCEPT ![t] = [FreeTick EXCEPT !.pc = "checkCamera"]]
  /\ UNCHANGED <<flagVars, cfgVars, detector, videoReady, heap, appVars,
                 histVars, statsVars, factoryVars>>

\* window.cancelAnimationFrame(rafId)
cancelAnimationFrame(n) == IF rafIdPending THEN n - 1 ELSE n

\* A rejection that leaves renderPrediction: the tick ends, nothing is
\* rescheduled.
Abort(t, why) ==
  /\ tick' = [tick EXCEPT ![t] = FreeTick]
  /\ loopAborted' = why

\* ------------------------------------------------------- checkGuiUpdate
checkGuiUpdate_Camera(t) ==
  /\ tick[t].pc = "checkCamera"
  /\ tick' = SetPc(t, IF isTargetFPSChanged \/ isSizeOptionChanged
                      THEN "setupCamera" ELSE "checkModel")
  /\ UNCHANGED <<flagVars, cfgVars, detector, videoReady, rafVars, heap,
                 appVars, histVars, statsVars, factoryVars>>

\* camera = await Camera.setupCamera(STATE.camera); then the model branch.
setupCamera_Resolve_ElseIf(t) ==
  /\ Quiescent
  /\ tick[t].pc = "setupCamera"
  /\ videoReady' \in BOOLEAN
  /\ isTargetFPSChanged' = FALSE
  /\ isSizeOptionChanged' = FALSE
  /\ tick' = [tick EXCEPT ![t].pc = "gateCheck", ![t].capture = TRUE]
  /\ UNCHANGED <<isModelChanged, isFlagChanged, isBackendChanged, cfgVars,
                 detector, rafVars, heap, appVars, histVars, statsVars,
                 factoryVars>>

setupCamera_Resolve(t) ==
  /\ Quiescent
  /\ tick[t].pc = "setupCamera"
  /\ videoReady' \in BOOLEAN
  /\ isTargetFPSChanged' = FALSE
  /\ isSizeOptionChanged' = FALSE
  /\ tick' = [tick EXCEPT ![t].pc = "checkModel", ![t].capture = TRUE]
  /\ UNCHANGED <<isModelChanged, isFlagChanged, isBackendChanged, cfgVars,
                 detector, rafVars, heap, appVars, histVars, statsVars,
                 factoryVars>>

setupCamera_Reject(t) ==
  /\ Quiescent
  /\ tick[t].pc = "setupCamera"
  /\ Abort(t, "camera")
  /\ UNCHANGED <<flagVars, cfgVars, detector, videoReady, rafVars, heap,
                 appVars, useAfterDispose, doubleDispose, loadFailed,
                 retryArmed, inferFailed, statsVars, factoryVars>>

checkGuiUpdate_Model(t) ==
  /\ tick[t].pc = "checkModel"
  /\ IF isModelChanged \/ isFlagChanged \/ isBackendChanged
     THEN /\ isModelChanged' = GateOnReconcile
          /\ rafPending' = cancelAnimationFrame(rafPending)
          /\ rafIdPending' = FALSE
          /\ IF detector # 0
             THEN /\ heap' = Dispose(heap, detector)
                  /\ doubleDispose' =
                       (doubleDispose \/ heap[detector].st = "disposed")
             ELSE UNCHANGED <<heap, doubleDispose>>
          /\ IF isFlagChanged \/ isBackendChanged
             THEN tick' = SetPc(t, "setBackend")
             ELSE tick' = [tick EXCEPT ![t].pc = "createDetector",
                                       ![t].pend = createDetector]
     ELSE /\ tick' = SetPc(t, "gateCheck")
          /\ UNCHANGED <<isModelChanged, rafVars, heap, doubleDispose>>
  /\ UNCHANGED <<isFlagChanged, isBackendChanged, isTargetFPSChanged,
                 isSizeOptionChanged, cfgVars, detector, videoReady,
                 appVars, useAfterDispose, loadFailed, retryArmed,
                 inferFailed, loopAborted, statsVars, factoryVars>>

setBackendAndEnvFlags_Resolve(t) ==
  /\ Quiescent
  /\ tick[t].pc = "setBackend"
  /\ tick' = [tick EXCEPT ![t].pc = "createDetector",
                          ![t].pend = createDetector]
  /\ UNCHANGED <<flagVars, cfgVars, detector, videoReady, rafVars, heap,
                 appVars, histVars, statsVars, factoryVars>>

setBackendAndEnvFlags_Reject(t) ==
  /\ Quiescent
  /\ tick[t].pc = "setBackend"
  /\ Abort(t, "backend")
  /\ UNCHANGED <<flagVars, cfgVars, detector, videoReady, rafVars, heap,
                 appVars, useAfterDispose, doubleDispose, loadFailed,
                 retryArmed, inferFailed, statsVars, factoryVars>>

createDetector_Resolve(t) ==
  /\ Quiescent
  /\ tick[t].pc = "createDetector"
  /\ FreeIds # {}
  /\ detector' = NewId
  /\ tick' = [tick EXCEPT ![t].pc = "gateCheck", ![t].pend = NoCfg]
  /\ heap' = Collect([heap EXCEPT ![NewId] =
                        [st |-> "live", cfg |-> tick[t].pend,
                         flagged |-> FALSE]],
                     detector', tick')
  /\ isFlagChanged' = FlagAfterReconcile(isFlagChanged, FALSE)
  /\ isBackendChanged' = FlagAfterReconcile(isBackendChanged, FALSE)
  /\ isModelChanged' = FlagAfterReconcile(isModelChanged, FALSE)
  /\ loadFailed' = FALSE
  /\ retryArmed' = FALSE
  /\ inferFailed' = FALSE
  /\ UNCHANGED <<isTargetFPSChanged, isSizeOptionChanged, cfgVars,
                 videoReady, rafVars, appVars, useAfterDispose,
                 doubleDispose, loopAborted, statsVars, factoryVars>>

createDetector_Reject(t) ==
  /\ Quiescent
  /\ tick[t].pc = "createDetector"
  /\ detector' = DetectorAfterLoadFailure(detector)
  /\ tick' = [tick EXCEPT ![t].pc = "gateCheck", ![t].pend = NoCfg]
  /\ heap' = Collect(heap, detector', tick')
  /\ isFlagChanged' = FlagAfterReconcile(isFlagChanged, TRUE)
  /\ isBackendChanged' = FlagAfterReconcile(isBackendChanged, TRUE)
  /\ isModelChanged' = FlagAfterReconcile(isModelChanged, TRUE)
  /\ loadFailed' = TRUE
  /\ retryArmed' = FALSE
  /\ UNCHANGED <<isTargetFPSChanged, isSizeOptionChanged, cfgVars,
                 videoReady, rafVars, appVars, useAfterDispose,
                 doubleDispose, inferFailed, loopAborted, statsVars, factoryVars>>

checkGuiUpdate(t) ==
  \/ checkGuiUpdate_Camera(t)
  \/ setupCamera_Resolve(t) \/ setupCamera_Reject(t)
  \/ checkGuiUpdate_Model(t)
  \/ setBackendAndEnvFlags_Resolve(t) \/ setBackendAndEnvFlags_Reject(t)
  \/ createDetector_Resolve(t) \/ createDetector_Reject(t)

\* ------------------------------------------------------ renderPrediction
\* if (!STATE.isModelChanged) await renderResult();
renderPrediction_Gate(t) ==
  /\ tick[t].pc = "gateCheck"
  /\ tick' = SetPc(t, IF ~isModelChanged THEN "checkVideo" ELSE "resched")
  /\ UNCHANGED <<flagVars, cfgVars, detector, videoReady, rafVars, heap,
                 appVars, histVars, statsVars, factoryVars>>

\* ---------------------------------------------------------- renderResult
renderResult_Video(t) ==
  /\ tick[t].pc = "checkVideo"
  /\ tick' = SetPc(t, IF ~videoReady THEN "waitVideo" ELSE "checkDetector")
  /\ UNCHANGED <<flagVars, cfgVars, detector, videoReady, rafVars, heap,
                 appVars, histVars, statsVars, factoryVars>>

\* The video element fires loadeddata; the installed handler resolves.
video_onloadeddata ==
  /\ Quiescent
  /\ appPc = "done"
  /\ ~videoReady
  /\ videoReady' = TRUE
  /\ \/ \E t \in Slots : /\ tick[t].pc = "waitVideo"
                         /\ tick' = SetPc(t, "checkDetector")
     \/ /\ \A t \in Slots : tick[t].pc # "waitVideo"
        /\ UNCHANGED tick
  /\ UNCHANGED <<flagVars, cfgVars, detector, rafVars, heap, appVars,
                 histVars, statsVars, factoryVars>>

\* let poses = null; if (detector != null) poses = await estimatePoses(..)
renderResult_Detector(t) ==
  /\ tick[t].pc = "checkDetector"
  /\ IF detector # 0
     THEN /\ tick' = [tick EXCEPT ![t].pc = "estimate",
                                  ![t].inferH = detector]
          /\ useAfterDispose' =
               (useAfterDispose \/ heap[detector].st = "disposed")
     ELSE /\ tick' = SetPc(t, "draw")
          /\ UNCHANGED useAfterDispose
  /\ UNCHANGED <<flagVars, cfgVars, detector, videoReady, rafVars, heap,
                 appVars, doubleDispose, loadFailed, retryArmed,
                 inferFailed, loopAborted, statsVars, factoryVars>>

estimatePoses_Resolve(t) ==
  /\ Quiescent
  /\ tick[t].pc = "estimate"
  /\ \E s \in {"empty", "poses"} :
       tick' = [tick EXCEPT ![t].pc = "draw",
                            ![t].poses =
                               [some |-> s,
                                cfg |-> heap[tick[t].inferH].cfg,
                                flagged |-> heap[tick[t].inferH].flagged]]
  /\ UNCHANGED <<flagVars, cfgVars, detector, videoReady, rafVars, heap,
                 appVars, histVars, statsVars, factoryVars>>

\* catch (error) { detector.dispose(); detector = null; alert(error); }
estimatePoses_Reject_Rethrow(t) ==
  /\ Quiescent
  /\ tick[t].pc = "estimate"
  /\ Abort(t, "inference")
  /\ inferFailed' = TRUE
  /\ UNCHANGED <<flagVars, cfgVars, detector, videoReady, rafVars, heap,
                 appVars, useAfterDispose, doubleDispose, loadFailed,
                 retryArmed, statsVars, factoryVars>>

estimatePoses_Reject(t) ==
  /\ Quiescent
  /\ tick[t].pc = "estimate"
  /\ inferFailed' = TRUE
  /\ IF detector # 0
     THEN /\ heap' = Dispose(heap, detector)
          /\ doubleDispose' =
               (doubleDispose \/ heap[detector].st = "disposed")
          /\ detector' = DetectorAfterInferenceFailure(detector)
          /\ tick' = [tick EXCEPT ![t].pc = "draw", ![t].threw = TRUE]
          /\ UNCHANGED loopAborted
     ELSE /\ Abort(t, "catch")
          /\ UNCHANGED <<heap, doubleDispose, detector>>
  /\ UNCHANGED <<flagVars, cfgVars, videoReady, rafVars, appVars,
                 useAfterDispose, loadFailed, retryArmed, statsVars, factoryVars>>

\* camera.drawCtx(); overlay if allowed; camera.drawIndicators();
renderResult_Draw(t) ==
  /\ tick[t].pc = "draw"
  /\ tick' = [tick EXCEPT
       ![t].pc = "resched",
       ![t].calls =
          <<"drawCtx">>
          \o (IF OverlayAllowed(tick[t].poses, isModelChanged)
              THEN <<"drawResults", "drawIdeal">> ELSE <<>>)
          \o <<"drawIndicators">>]
  /\ UNCHANGED <<flagVars, cfgVars, detector, videoReady, rafVars, heap,
                 appVars, histVars, statsVars, factoryVars>>

renderResult(t) ==
  \/ renderResult_Video(t) \/ renderResult_Detector(t)
  \/ estimatePoses_Resolve(t) \/ estimatePoses_Reject(t)
  \/ renderResult_Draw(t)

\* rafId = requestAnimationFrame(renderPrediction);
renderPrediction_Reschedule(t) ==
  /\ tick[t].pc = "resched"
  /\ requestAnimationFrame(rafPending) <= MaxPending
  /\ rafPending' = requestAnimationFrame(rafPending)
  /\ rafIdPending' = TRUE
  /\ tick' = [tick EXCEPT ![t] = FreeTick]
  /\ heap' = Collect(heap, detector, tick')
  /\ UNCHANGED <<flagVars, cfgVars, detector, videoReady, appVars,
                 histVars, statsVars, factoryVars>>

renderPrediction(t) ==
  \/ FrameCallback(t)
  \/ checkGuiUpdate(t)
  \/ renderPrediction_Gate(t)
  \/ renderResult(t)
  \/ renderPrediction_Reschedule(t)

Next ==
  \/ app
  \/ Panel
  \/ video_onloadeddata
  \/ \E t \in Slots : renderPrediction(t)

Spec == Init /\ [][Next]_vars

\* ------------------------------------------------------------ helpers
Drew(t, c) == \E i \in 1..Len(tick[t].calls) : tick[t].calls[i] = c
AliveHandles == {i \in Handles : heap[i].st = "live"}
Constructing ==
  Cardinality({t \in Slots : tick[t].pc = "createDetector"})
  + (IF appPc = "createDetector" THEN 1 ELSE 0)
TypeOK ==
  /\ detector \in 0..NHandles
  /\ rafPending \in 0..MaxPending
  /\ \A t \in Slots : tick[t].inferH \in 0..NHandles

\* ------------------------------------------------------ Stats Aggregator
\* beginEstimatePosesStats / endEstimatePosesStats are defined but the
\* loop does not call them; they are exercised on their own, with the
\* clock and the stats panel as inputs.
MaxSamples == 2
Deltas == {500, 1000}
panelUpdateMilliseconds == 1000

RECURSIVE SumSeq(_)
SumSeq(s) == IF s = <<>> THEN 0 ELSE Head(s) + SumSeq(Tail(s))

\* Quotients are kept exact, as numerator and denominator.
Average(sum, count) == [n |-> sum, d |-> count]
Rate(avg) == [n |-> 1000 * avg.d, d |-> avg.n]

\* ++numInferences, before the average is taken.
IncrementCount_Late(n) == n
IncrementCount(n) == n + 1

\* inferenceTimeSum = 0 after the average was taken.
ResetSum_Keep(s) == s
ResetSum(s) == 0

InitStats ==
  /\ isModelChanged = FALSE /\ isFlagChanged = FALSE
  /\ isBackendChanged = FALSE
  /\ isTargetFPSChanged = FALSE /\ isSizeOptionChanged = FALSE
  /\ model \in Models /\ backend \in Backends
  /\ detector = 0 /\ videoReady = FALSE
  /\ rafPending = 0 /\ rafIdPending = FALSE
  /\ heap = [i \in Handles |-> FreeCell]
  /\ appPc = "start" /\ appPend = NoCfg
  /\ tick = [t \in Slots |-> FreeTick]
  /\ useAfterDispose = FALSE /\ doubleDispose = FALSE
  /\ loadFailed = FALSE /\ retryArmed = FALSE /\ inferFailed = FALSE
  /\ loopAborted = "no"
  /\ stats \in {"undefined", "panel"}
  /\ startInferenceTime = -1 /\ numInferences = 0
  /\ inferenceTimeSum = 0 /\ lastPanelUpdate = 0
  /\ now = 0 /\ statsPc = "idle"
  /\ reported = [n |-> 0, d |-> 0, set |-> FALSE]
  /\ samples = <<>> /\ reportedSamples = <<>> /\ reports = 0
  /\ modelType = "lightning" /\ customModel = ""
  /\ factoryCalls = <<>> /\ factoryPc = "idle"

\* (performance || Date).now() advances.
Clock ==
  /\ \E d \in Deltas : /\ now + d <= MaxNow
                       /\ now' = now + d
  /\ UNCHANGED <<loopVars, factoryVars, stats, startInferenceTime, numInferences,
                 inferenceTimeSum, lastPanelUpdate, statsPc, reported,
                 samples, reportedSamples, reports>>

beginEstimatePosesStats ==
  /\ statsPc # "measuring"
  /\ Len(samples) < MaxSamples
  /\ startInferenceTime' = now
  /\ statsPc' = "measuring"
  /\ UNCHANGED <<loopVars, factoryVars, stats, numInferences, inferenceTimeSum,
                 lastPanelUpdate, now, reported, samples, reportedSamples,
                 reports>>

endEstimatePosesStats ==
  /\ statsPc = "measuring"
  /\ LET endInferenceTime == now
         sum1 == inferenceTimeSum + (endInferenceTime - startInferenceTime)
         num1 == IncrementCount(numInferences)
         all == Append(samples, endInferenceTime - startInferenceTime)
     IN IF endInferenceTime - lastPanelUpdate >= panelUpdateMilliseconds
        THEN /\ inferenceTimeSum' = ResetSum(sum1)
             /\ numInferences' = 0
             /\ IF stats = "panel"
                THEN /\ reported' = [n |-> Rate(Average(sum1, num1)).n,
                                     d |-> Rate(Average(sum1, num1)).d,
                                     set |-> TRUE]
                     /\ lastPanelUpdate' = endInferenceTime
                     /\ reportedSamples' = all
                     /\ samples' = <<>>
                     /\ reports' = IF reports < 2 THEN reports + 1
                                   ELSE reports
                     /\ statsPc' = "reported"
                ELSE \* stats is undefined: the update call throws
                     /\ samples' = all
                     /\ statsPc' = "threw"
                     /\ UNCHANGED <<reported, lastPanelUpdate,
                                    reportedSamples, reports>>
        ELSE /\ inferenceTimeSum' = sum1
             /\ numInferences' = num1
             /\ samples' = all
             /\ statsPc' = "ended"
             /\ UNCHANGED <<reported, lastPanelUpdate, reportedSamples,
                            reports>>
  /\ UNCHANGED <<loopVars, factoryVars, stats, startInferenceTime, now>>

NextStats == Clock \/ beginEstimatePosesStats \/ endEstimatePosesStats

SpecStats == InitStats /\ [][NextStats]_vars

\* --------------------------------------------------------- createDetector
\* createDetector as a function of STATE: the calls it makes to
\* posedetection.createDetector.  Backends are character strings, so that
\* STATE.backend.split("-")[0] is computed.
S_tfjs == <<"t", "f", "j", "s">>
S_mediapipe == <<"m", "e", "d", "i", "a", "p", "i", "p", "e">>
FactoryBackends ==
  { S_tfjs \o <<"-", "w", "e", "b", "g", "l">>,
    S_tfjs \o <<"-", "w", "a", "s", "m">>,
    S_mediapipe \o <<"-", "g", "p", "u">>,
    <<"w", "a", "s", "m">>,
    <<>> }
SupportedModels == {"PoseNet", "BlazePose", "MoveNet"}
ModelTypes == {"lightning", "thunder", "multipose", "full"}
CustomModels == {"", "https://x/model.json"}

\* s.split("-")[0]
SplitFirst(s) ==
  LET dashes == {i \in 1..Len(s) : s[i] = "-"}
      first == IF dashes = {} THEN Len(s) + 1
               ELSE CHOOSE i \in dashes : \A j \in dashes : i <= j
  IN SubSeq(s, 1, first - 1)

\* modelType of the MoveNet case
MoveNetModelType_Swapped(ty) ==
  IF ty = "lightning" THEN "SINGLEPOSE_THUNDER"
  ELSE IF ty = "thunder" THEN "SINGLEPOSE_LIGHTNING"
  ELSE IF ty = "multipose" THEN "MULTIPOSE"
  ELSE "undefined"
MoveNetModelType(ty) ==
  IF ty = "lightning" THEN "SINGLEPOSE_LIGHTNING"
  ELSE IF ty = "thunder" THEN "SINGLEPOSE_THUNDER"
  ELSE IF ty = "multipose" THEN "MULTIPOSE"
  ELSE "undefined"

\* The statements of case MoveNet; case BlazePose falls into them when
\* neither runtime branch returned.
MoveNetCase(m, ty, cm) ==
  IF cm # ""
  THEN <<[model |-> m,
          params |-> [modelType |-> MoveNetModelType(ty), modelUrl |-> cm]]>>
  ELSE <<[model |-> m, params |-> [modelType |-> MoveNetModelType(ty)]]>>

createDetector_Factory(m, b, ty, cm) ==
  CASE m = "PoseNet" ->
         <<[model |-> m,
            params |-> [quantBytes |-> 4, architecture |-> "MobileNetV1",
                        outputStride |-> 16,
                        inputResolution |-> [width |-> 500, height |-> 500],
                        multiplier |-> "0.75"]]>>
    [] m = "BlazePose" ->
         IF SplitFirst(b) = S_mediapipe
         THEN <<[model |-> m,
                 params |-> [runtime |-> SplitFirst(b), modelType |-> ty,
                             solutionPath |->
                               "https://cdn.jsdelivr.net/npm/@mediapipe/pose@0.4"]]>>
         ELSE IF SplitFirst(b) = S_tfjs
         THEN <<[model |-> m,
                 params |-> [runtime |-> SplitFirst(b), modelType |-> ty]]>>
         ELSE MoveNetCase(m, ty, cm)
    [] m = "MoveNet" -> MoveNetCase(m, ty, cm)
    [] OTHER -> <<>>

InitFactory ==
  /\ isModelChanged = FALSE /\ isFlagChanged = FALSE
  /\ isBackendChanged = FALSE
  /\ isTargetFPSChanged = FALSE /\ isSizeOptionChanged = FALSE
  /\ model \in SupportedModels /\ backend \in FactoryBackends
  /\ detector = 0 /\ videoReady = FALSE
  /\ rafPending = 0 /\ rafIdPending = FALSE
  /\ heap = [i \in Handles |-> FreeCell]
  /\ appPc = "start" /\ appPend = NoCfg
  /\ tick = [t \in Slots |-> FreeTick]
  /\ useAfterDispose = FALSE /\ doubleDispose = FALSE
  /\ loadFailed = FALSE /\ retryArmed = FALSE /\ inferFailed = FALSE
  /\ loopAborted = "no"
  /\ stats = "undefined"
  /\ startInferenceTime = -1 /\ numInferences = 0
  /\ inferenceTimeSum = 0 /\ lastPanelUpdate = 0
  /\ now = 0 /\ statsPc = "idle"
  /\ reported = [n |-> 0, d |-> 0, set |-> FALSE]
  /\ samples = <<>> /\ reportedSamples = <<>> /\ reports = 0
  /\ modelType \in ModelTypes /\ customModel \in CustomModels
  /\ factoryCalls = <<>> /\ factoryPc = "idle"

createDetector_Call ==
  /\ factoryPc = "idle"
  /\ factoryCalls' =
       createDetector_Factory(model, backend, modelType, customModel)
  /\ factoryPc' = "returned"
  /\ UNCHANGED <<loopVars, statsVars, modelType, customModel>>

NextFactory == createDetector_Call

SpecFactory == InitFactory /\ [][NextFactory]_vars

\* ================================================================ claims

\* C1: at most one detector handle that was constructed and not yet
\* disposed exists at any instant, no construction is started while such
\* a handle exists, and no second construction is started while one is
\* pending.
C1_OneLiveHandle == Cardinality(AliveHandles) + Constructing <= 1

\* C1 witness: a reconciliation constructs a detector after it disposed
\* the previous one.
C1_Witness ==
  \E t \in Slots : /\ tick[t].pc = "createDetector"
                   /\ detector # 0
                   /\ heap[detector].st = "disposed"
                   /\ AliveHandles = {}

\* C2: estimatePoses is never invoked on a handle that was disposed and
\* dispose is never called twice on one handle, whichever path disposed it.
C2_NoUseAfterDispose == ~useAfterDispose /\ ~doubleDispose

\* C2 witness: the handle of a failed inference was disposed by the catch
\* and the detector variable no longer refers to it.
C2_Witness ==
  \E t \in Slots : /\ tick[t].pc = "draw"
                   /\ tick[t].threw
                   /\ heap[tick[t].inferH].st = "disposed"
                   /\ detector = 0

\* C3: a pose result is overlaid only if the detector that computed it was
\* constructed from the configuration selected at the moment of drawing.
C3_OverlayMatchesSelection ==
  \A t \in Slots :
     Drew(t, "drawResults") => tick[t].poses.cfg = createDetector

\* C4: poses of an inference during which the panel set modelChanged are
\* not overlaid in that tick, and that detector is replaced before it
\* infers again (so nothing it computes is overlaid later).
C4_StaleInFlightNotDrawn ==
  /\ \A t \in Slots :
       /\ tick[t].poses.flagged => ~Drew(t, "drawResults")
       /\ (tick[t].pc = "checkDetector" /\ detector # 0)
            => ~heap[detector].flagged
  /\ \A i \in Handles :
       (heap[i].flagged /\ heap[i].st = "live") => isModelChanged

\* C4 witness: a tick finished rendering with non-empty poses from an
\* inference that the panel interrupted, and drew only the raw frame.
C4_Witness ==
  \E t \in Slots : /\ tick[t].pc = "resched"
                   /\ tick[t].poses.some = "poses"
                   /\ tick[t].poses.flagged
                   /\ tick[t].calls = <<"drawCtx", "drawIndicators">>

\* C5: after a failed construction in checkGuiUpdate and until a later one
\* succeeds, detector is null, the gate is clear when checkGuiUpdate
\* returns, no inference is invoked, and every tick that renders draws the
\* raw frame and no overlay.
C5_NoOverlayAfterLoadFailure ==
  loadFailed =>
    /\ detector = 0
    /\ \A t \in Slots :
         /\ tick[t].pc # "estimate"
         /\ tick[t].poses.some = "null"
         /\ tick[t].pc = "gateCheck" => ~isModelChanged
         /\ tick[t].pc = "resched"
              => tick[t].calls = <<"drawCtx", "drawIndicators">>

\* C5 witness: a tick rendered after the construction had failed.
C5_Witness ==
  /\ loadFailed
  /\ \E t \in Slots : /\ tick[t].pc = "resched"
                      /\ tick[t].calls = <<"drawCtx", "drawIndicators">>
                      /\ ~isModelChanged

\* C6: when estimatePoses throws, the handle is disposed, detector is
\* null, the tick has no poses and draws the raw frame and the indicators
\* without overlay, the tick is rescheduled, and no inference runs until a
\* detector is constructed again.
C6_InferenceFailureDegrades ==
  /\ \A t \in Slots :
       tick[t].threw =>
         /\ heap[tick[t].inferH].st = "disposed"
         /\ detector = 0
         /\ tick[t].poses.some = "null"
         /\ tick[t].pc \in {"draw", "resched"}
         /\ tick[t].pc = "resched"
              => tick[t].calls = <<"drawCtx", "drawIndicators">>
  /\ inferFailed =>
       /\ detector = 0
       /\ \A t \in Slots : tick[t].pc # "estimate"
       /\ loopAborted \notin {"inference", "catch"}
       /\ (ActiveTicks = {} /\ loopAborted = "no") => rafPending >= 1

\* C6 witness: the tick whose inference threw has rendered and is about to
\* reschedule.
C6_Witness ==
  \E t \in Slots : /\ tick[t].threw
                   /\ tick[t].pc = "resched"
                   /\ inferFailed

\* C7: the gate is true from the disposal of the old handle until the
\* construction of the new one has resolved or failed.
C7_GateHeldDuringReplacement ==
  \A t \in Slots :
     tick[t].pc \in {"setBackend", "createDetector"} => isModelChanged

\* C7 witness: a replacement triggered by a backend change alone is in
\* flight, the old handle disposed.
C7_Witness ==
  \E t \in Slots : /\ tick[t].pc = "setBackend"
                   /\ isBackendChanged /\ ~isFlagChanged
                   /\ detector # 0
                   /\ heap[detector].st = "disposed"

\* C8: at most one renderPrediction body is in progress, at most one frame
\* callback is pending, and none is pending while a body is in progress.
C8_TicksSequential ==
  /\ Cardinality(ActiveTicks) <= 1
  /\ rafPending <= 1
  /\ ActiveTicks # {} => rafPending = 0
  /\ appPc # "done" => (ActiveTicks = {} /\ rafPending = 0)

\* C8 witness: a later tick is suspended in its reconciliation while the
\* panel has written a model change.
C8_Witness ==
  \E t \in Slots : /\ tick[t].pc = "setupCamera"
                   /\ inferFailed
                   /\ isModelChanged
                   /\ rafPending = 0

\* C9: after a failed construction, createDetector is invoked again only
\* if the panel set modelChanged, flagsChanged or backendChanged after the
\* failure.
C9_NoAutomaticRetry ==
  \A t \in Slots :
     (tick[t].pc = "createDetector" /\ loadFailed) => retryArmed

\* C9 witness: a construction retried on the user's request is pending.
C9_Witness ==
  \E t \in Slots : /\ tick[t].pc = "createDetector"
                   /\ loadFailed /\ retryArmed

\* C10: a report carries 1000 divided by the average of exactly the
\* durations recorded since the previous report, and right after it the
\* running sum and count are zero.
C10_ReportedRate ==
  /\ reported.set =>
       /\ reported.n * SumSeq(reportedSamples)
            = 1000 * Len(reportedSamples) * reported.d
       /\ reported.n > 0
       /\ (reported.d = 0) <=> (SumSeq(reportedSamples) = 0)
  /\ statsPc = "reported" =>
       (inferenceTimeSum = 0 /\ numInferences = 0)

\* C10 witness: a second report was emitted for a window of two samples.
C10_Witness ==
  /\ statsPc = "reported"
  /\ reports = 2
  /\ Len(reportedSamples) = 2
  /\ reported.d > 0

\* C11: a report is only computed over at least one sample (the divisor of
\* the average is at least 1), and nothing is reported for an interval in
\* which no inference completed.
C11_NoEmptyReport ==
  /\ reported.set =>
       /\ Len(reportedSamples) >= 1
       /\ reported.n >= 1000
  /\ (lastPanelUpdate # 0 \/ reports # 0) => reported.set
  /\ (statsPc = "reported") => reported.set

\* C11 witness: the first report, of one sample that began after a whole
\* interval had passed without any inference and without a report.
C11_Witness ==
  /\ stats = "panel"
  /\ statsPc = "reported"
  /\ reports = 1
  /\ Len(reportedSamples) = 1
  /\ startInferenceTime >= panelUpdateMilliseconds

\* C12: for MoveNet the factory is called once, with modelType mapped from
\* modelConfig.type, and with a modelUrl field exactly when the custom
\* model string is non-empty, then equal to that string.
C12_MoveNetParameters ==
  (factoryPc = "returned" /\ model = "MoveNet") =>
    /\ Len(factoryCalls) = 1
    /\ factoryCalls[1].model = "MoveNet"
    /\ DOMAIN factoryCalls[1].params \subseteq {"modelType", "modelUrl"}
    /\ modelType = "lightning"
         => factoryCalls[1].params.modelType = "SINGLEPOSE_LIGHTNING"
    /\ modelType = "thunder"
         => factoryCalls[1].params.modelType = "SINGLEPOSE_THUNDER"
    /\ modelType = "multipose"
         => factoryCalls[1].params.modelType = "MULTIPOSE"
    /\ ("modelUrl" \in DOMAIN factoryCalls[1].params) <=> (customModel # "")
    /\ customModel # "" => factoryCalls[1].params.modelUrl = customModel

\* C12 witness: scenario B, thunder with a custom model URL.
C12_Witness ==
  /\ factoryPc = "returned"
  /\ model = "MoveNet" /\ modelType = "thunder"
  /\ customModel = "https://x/model.json"
  /\ factoryCalls = <<[model |-> "MoveNet",
                       params |-> [modelType |-> "SINGLEPOSE_THUNDER",
                                   modelUrl |-> "https://x/model.json"]]>>

\* C13: once Camera.setupCamera has thrown during startup the loop never
\* runs: app() has ended, no renderPrediction body executes, no frame
\* callback is requested and no detector is constructed or being
\* constructed.
C13_DeviceErrorIsFatal ==
  loopAborted = "device" =>
    /\ appPc = "failed"
    /\ ActiveTicks = {}
    /\ rafPending = 0 /\ ~rafIdPending
    /\ detector = 0
    /\ Constructing = 0
    /\ \A i \in Handles : heap[i].st = "free"

\* C13 witness: the panel keeps writing changes after the failed startup
\* and still nothing runs.
C13_Witness ==
  /\ loopAborted = "device"
  /\ appPc = "failed"
  /\ isModelChanged /\ isTargetFPSChanged

\* C14: checkGuiUpdate clears a model-side flag only if the values written
\* with it were used for the reinitialization, so that whenever no
\* model-side flag is set the detector was built from the configuration
\* that is selected (no change is lost).
C14_ClearedFlagsMeanReconciled ==
  ( /\ appPc = "done"
    /\ detector # 0
    /\ heap[detector].st = "live"
    /\ ~isModelChanged /\ ~isFlagChanged /\ ~isBackendChanged )
  => heap[detector].cfg = createDetector

\* C15: drawResults is not called while any of modelChanged, flagsChanged
\* or backendChanged is set at the overlay decision.
C15_NoOverlayWhilePending ==
  \A t \in Slots :
     Drew(t, "drawResults")
       => ~(isModelChanged \/ isFlagChanged \/ isBackendChanged)

\* C16: at every instant the detector variable is null or refers to a
\* handle that has not been disposed.
C16_DetectorNeverDangling ==
  detector = 0 \/ heap[detector].st # "disposed"

\* C17: capture and model reinitialization are independent.  The capture
\* branch of checkGuiUpdate runs exactly when a capture flag is set, clears
\* the two capture flags and touches neither the detector, the handles,
\* the gate nor the model flags, and is always followed by the model
\* test; the model branch runs exactly when a model flag is set (also
\* right after a capture reinitialization) and touches neither the camera
\* nor the capture flags; with no model flag set the detector, the gate
\* and the model flags stay as they are.
C17_IndependentAxes ==
  [][\A t \in Slots :
       LET own == tick'[t].pc # tick[t].pc
           modelSide == <<detector, heap, isModelChanged, isFlagChanged,
                          isBackendChanged>>
           captureSide == <<videoReady, isTargetFPSChanged,
                            isSizeOptionChanged>>
       IN /\ (tick[t].pc = "checkCamera" /\ own) =>
               /\ tick'[t].pc =
                    IF isTargetFPSChanged \/ isSizeOptionChanged
                    THEN "setupCamera" ELSE "checkModel"
               /\ UNCHANGED <<modelSide, captureSide>>
          /\ (tick[t].pc = "setupCamera" /\ own /\ tick'[t].pc # "free") =>
               /\ tick'[t].pc = "checkModel"
               /\ tick'[t].capture
               /\ ~isTargetFPSChanged' /\ ~isSizeOptionChanged'
               /\ UNCHANGED modelSide
          /\ (tick[t].pc = "checkModel" /\ own) =>
               IF isModelChanged \/ isFlagChanged \/ isBackendChanged
               THEN tick'[t].pc \in {"setBackend", "createDetector"}
               ELSE tick'[t].pc = "gateCheck" /\ UNCHANGED modelSide
          /\ (tick[t].pc \in {"checkModel", "setBackend", "createDetector"}
                /\ own) =>
               /\ UNCHANGED captureSide
               /\ tick'[t].pc # "free" => tick'[t].capture = tick[t].capture
  ]_vars

\* C17 witness: a tick that reinitialized the capture source is now
\* constructing a detector.
C17_Witness ==
  \E t \in Slots : /\ tick[t].capture
                   /\ tick[t].pc = "createDetector"
                   /\ detector # 0
                   /\ heap[detector].st = "disposed"

\* C18: a tick whose inference completed has recorded its latency sample
\* in the Stats Aggregator by the time it renders and reschedules.
C18_InferenceRecordsSample ==
  \A t \in Slots :
     (tick[t].pc \in {"draw", "resched"} /\ tick[t].poses.some # "null")
       => (numInferences >= 1 \/ statsPc \in {"reported", "threw"})

\* C19: createDetector calls the factory at most once and only with the
\* parameter shape of the selected model kind; for BlazePose no call
\* carries the MoveNet parameters (modelType with optional modelUrl and no
\* runtime).
C19_FactoryShape ==
  factoryPc = "returned" =>
    /\ Len(factoryCalls) <= 1
    /\ \A k \in 1..Len(factoryCalls) :
         /\ factoryCalls[k].model = model
         /\ model = "PoseNet"
              => "architecture" \in DOMAIN factoryCalls[k].params
         /\ model = "BlazePose"
              => "runtime" \in DOMAIN factoryCalls[k].params
         /\ model = "MoveNet"
              => DOMAIN factoryCalls[k].params
                   \subseteq {"modelType", "modelUrl"}

\* C20: the loop is never left stopped (no tick in progress, no frame
\* callback pending) with the gate set and the detector variable pointing
\* at a disposed handle.
C20_GateNeverStuck ==
  ~( /\ appPc = "done"
     /\ ActiveTicks = {}
     /\ rafPending = 0
     /\ isModelChanged
     /\ detector # 0
     /\ heap[detector].st = "disposed" )

====
